---------------------------- MODULE Spec2Model ----------------------------
(* A model of the profile-switching engine of switch.go: the registry      *)
(* (Config / AppConfig), the files the engine reads and writes (the live   *)
(* artifact and the per-profile snapshots), and the operations AddAccount, *)
(* SwitchAccount, CycleAccounts, findCurrentAccount and NewSwitcher.       *)
(*                                                                         *)
(* Paths are sequences of segments; an absolute path starts with the       *)
(* segment "/", a home-relative one with the segment "~".  A file's        *)
(* content is the number of a text of the catalogue Text; Unmarshal gives  *)
(* what encoding/json decodes the text to and Marshal what it writes.      *)
EXTENDS Integers, Sequences, FiniteSets, TLC

VARIABLES config, disk, fs, last, walk, faults, edits, call

vars == <<config, disk, fs, last, walk, faults, edits, call>>

---------------------------------------------------------------------------
(* Bounds of the model.                                                    *)

\* I/O failures (copy or save) injected in one behaviour.
MaxFaults == 1

\* Rewrites of the live artifact by its application in one behaviour.
MaxEdits == 1

\* Nested calls the stack of the process holds.
MaxStack == 4

\* Segments of the longest path the operating system accepts (PATH_MAX).
MaxPathLen == 7

\* Profile names the operations are called with, in sort.Strings order.
NameOrder == <<"", "a", "b">>

Names == {NameOrder[i] : i \in 1..Len(NameOrder)}

\* Children a directory artifact can hold, in filepath.Walk (lexical) order.
EntryOrder == <<"f", "g">>

EntryNames == {EntryOrder[i] : i \in 1..Len(EntryOrder)}

---------------------------------------------------------------------------
(* File contents and file-system nodes.                                    *)

Partial == 0

\* The complete contents of a file: 1 and 2 are one JSON document written
\* with different bytes, 3 is another document.
Contents == {1, 2, 3}

\* Keys of JSON objects, in the order json.Marshal writes them.
KeyOrder == <<"k", "z">>

\* JSON values as they are written in a text: the number n, the number
\* 2^53 + n, the string "n", an object with the members m.
Num(n) == [t |-> "num", big |-> FALSE, n |-> n, m |-> <<>>]

BigNum(n) == [t |-> "num", big |-> TRUE, n |-> n, m |-> <<>>]

Str(n) == [t |-> "str", big |-> FALSE, n |-> n, m |-> <<>>]

Obj(m) == [t |-> "obj", big |-> FALSE, n |-> 0, m |-> m]

Member(k, v) == [k |-> k, v |-> v]

\* The bytes of a file: a JSON object with its members in written order
\* and ws white space in front of it, the JSON text null, a JSON array, an
\* object cut off by a failed write, or bytes that are no JSON.
ObjectText(ws, m) == [kind |-> "object", ws |-> ws, m |-> m]

NullText(ws) == [kind |-> "null", ws |-> ws, m |-> <<>>]

ArrayText == [kind |-> "array", ws |-> 0, m |-> <<>>]

CutText == [kind |-> "cut", ws |-> 0, m |-> <<>>]

RawText == [kind |-> "raw", ws |-> 0, m |-> <<>>]

\* The texts a file can hold, by content number.  1 and 2 are one document
\* with its keys in either order, 3 is another document.
Text == <<
    ObjectText(0, <<Member("k", Num(1)), Member("z", Num(2))>>),
    ObjectText(0, <<Member("z", Num(2)), Member("k", Num(1))>>),
    ObjectText(0, <<Member("k", Num(2)), Member("z", Num(2))>>),
    ObjectText(1, <<Member("k", Num(1)), Member("z", Num(2))>>),
    ObjectText(0, <<Member("k", Str(1)), Member("z", Num(2))>>),
    ObjectText(0, <<Member("k", Num(1))>>),
    ObjectText(0, <<Member("k", BigNum(0))>>),
    ObjectText(0, <<Member("k", BigNum(1))>>),
    ObjectText(0, <<Member("k", Obj(<<Member("k", Num(1)), Member("z", Num(2))>>))>>),
    ObjectText(0, <<Member("k", Obj(<<Member("z", Num(2)), Member("k", Num(1))>>))>>),
    ObjectText(0, <<>>),
    NullText(0),
    NullText(1),
    ArrayText,
    RawText >>

TextOf(c) == IF c = Partial THEN CutText ELSE Text[c]

\* Every content number.
TextIds == {Partial} \cup (1..Len(Text))

\* strconv.ParseFloat: a number above 2^53 is rounded to the nearest
\* float64, which is an even number (ties go to the even mantissa).
Float64(big, n) ==
    IF ~big THEN n
    ELSE CASE n % 4 = 1 -> n - 1
           [] n % 4 = 3 -> n + 1
           [] OTHER -> n

NoMap == [k \in {} |-> k]

RECURSIVE DecodeValue(_)
RECURSIVE DecodeMembers(_)
\* The map[string]interface{} of an object: a repeated key keeps its last
\* value.
DecodeMembers(m) ==
    [k \in {m[i].k : i \in 1..Len(m)} |->
        LET i == CHOOSE i \in 1..Len(m) :
                     m[i].k = k /\ \A j \in (i + 1)..Len(m) : m[j].k # k
        IN DecodeValue(m[i].v)]

\* The interface{} value of a JSON value: float64, string or map.
DecodeValue(v) ==
    CASE v.t = "num" -> [t |-> "float64", big |-> v.big, n |-> Float64(v.big, v.n), m |-> NoMap]
      [] v.t = "str" -> [t |-> "string", big |-> FALSE, n |-> v.n, m |-> NoMap]
      [] OTHER -> [t |-> "map", big |-> FALSE, n |-> 0, m |-> DecodeMembers(v.m)]

\* json.Unmarshal(data, &m) with m a nil map[string]interface{}: an object
\* fills the map, null leaves it nil without an error, anything else is an
\* error.
Unmarshal(text) ==
    CASE text.kind = "object" -> [err |-> FALSE, nil |-> FALSE, m |-> DecodeMembers(text.m)]
      [] text.kind = "null" -> [err |-> FALSE, nil |-> TRUE, m |-> NoMap]
      [] OTHER -> [err |-> TRUE, nil |-> TRUE, m |-> NoMap]

RECURSIVE EncodeValue(_)
RECURSIVE EncodeMembers(_)
\* The members json.Marshal writes for a map: its keys sorted.
EncodeMembers(m) ==
    LET keys == SelectSeq(KeyOrder, LAMBDA k : k \in DOMAIN m)
    IN [i \in 1..Len(keys) |-> Member(keys[i], EncodeValue(m[keys[i]]))]

EncodeValue(v) ==
    CASE v.t = "float64" -> [t |-> "num", big |-> v.big, n |-> v.n, m |-> <<>>]
      [] v.t = "string" -> Str(v.n)
      [] OTHER -> Obj(EncodeMembers(v.m))

\* json.Marshal of a map[string]interface{}: null for the nil map.
Marshal(a) ==
    IF a.nil THEN NullText(0) ELSE ObjectText(0, EncodeMembers(a.m))

NoEntry == -1

NoEntries == [n \in EntryNames |-> NoEntry]

Missing == [t |-> "none", c |-> NoEntry, e |-> NoEntries]

File(c) == [t |-> "file", c |-> c, e |-> NoEntries]

Dir(e) == [t |-> "dir", c |-> NoEntry, e |-> e]

---------------------------------------------------------------------------
(* Path Resolver.                                                          *)

Home == <<"/", "home">>

Last(s) == s[Len(s)]

Front(s) == SubSeq(s, 1, Len(s) - 1)

RECURSIVE CleanFrom(_, _)
\* filepath.Clean on segments: drops "." and empty segments, resolves "..".
CleanFrom(p, acc) ==
    IF p = <<>> THEN (IF acc = <<>> THEN <<".">> ELSE acc)
    ELSE LET s == Head(p) IN
         IF s = "." \/ s = ""
         THEN CleanFrom(Tail(p), acc)
         ELSE IF s = ".."
         THEN IF acc = <<"/">> THEN CleanFrom(Tail(p), acc)
              ELSE IF acc = <<>> \/ Last(acc) = ".."
              THEN CleanFrom(Tail(p), Append(acc, s))
              ELSE CleanFrom(Tail(p), Front(acc))
         ELSE CleanFrom(Tail(p), Append(acc, s))

\* filepath.Clean returns a path that is clean already as it is.
Clean(p) ==
    IF p # <<>> /\ \A i \in 1..Len(p) : p[i] \notin {".", "..", ""}
    THEN p
    ELSE CleanFrom(p, <<>>)

expandPath(p) ==
    IF p = <<>> THEN p
    ELSE IF Head(p) = "~"
         THEN Clean(Home \o Tail(p))
         ELSE Clean(p)

\* A pattern is a sequence of segments, each a sequence of tokens; the token
\* "{auth_path}" stands first in the pattern when it occurs.
SubstToken(tok, name) == IF tok = "{name}" THEN name ELSE tok

RECURSIVE SubstTokens(_, _)
SubstTokens(toks, name) ==
    IF toks = <<>> THEN ""
    ELSE SubstToken(Head(toks), name) \o SubstTokens(Tail(toks), name)

resolveSwitchPattern(pattern, authPath, name) ==
    LET first == Head(pattern)
        rest  == [i \in 1..(Len(pattern) - 1) |-> SubstTokens(pattern[i + 1], name)]
        lead  == IF first # <<>> /\ Head(first) = "{auth_path}"
                 THEN Append(Front(authPath),
                             Last(authPath) \o SubstTokens(Tail(first), name))
                 ELSE <<SubstTokens(first, name)>>
    IN expandPath(lead \o rest)

AppTemplates ==
    [codex  |-> [AuthPath |-> <<"~", ".codex", "auth.json">>,
                 Pattern  |-> << <<"{auth_path}", ".", "{name}", ".switch">> >>],
     vscode |-> [AuthPath |-> <<"~", ".vscode", "User">>,
                 Pattern  |-> << <<"~">>, <<".vscode">>, <<"profiles">>,
                                 <<"{name}", ".switch">> >>]]

TemplateApps == DOMAIN AppTemplates

RECURSIVE TabulateExpand(_)
\* expandPath on each path of a set, computed once.
TabulateExpand(S) ==
    IF S = {} THEN [x \in {} |-> x]
    ELSE LET k == CHOOSE x \in S : TRUE
         IN (k :> expandPath(k)) @@ TabulateExpand(S \ {k})

RECURSIVE TabulateResolve(_)
\* resolveSwitchPattern on each <<pattern, authPath, name>> of a set.
TabulateResolve(S) ==
    IF S = {} THEN [x \in {} |-> x]
    ELSE LET k == CHOOSE x \in S : TRUE
         IN (k :> resolveSwitchPattern(k[1], k[2], k[3]))
            @@ TabulateResolve(S \ {k})

\* The registry only ever holds the paths of the templates, as written or
\* expanded, and their patterns.
ExpandTable ==
    TabulateExpand({AppTemplates[a].AuthPath : a \in TemplateApps}
                   \cup {expandPath(AppTemplates[a].AuthPath) : a \in TemplateApps})

ResolveTable ==
    TabulateResolve({<<AppTemplates[a].Pattern, ExpandTable[AppTemplates[a].AuthPath], n>> :
                        a \in TemplateApps, n \in Names})

\* expandPath(p), looked up.
ExpandedPath(p) == ExpandTable[p]

\* resolveSwitchPattern(pattern, authPath, name), looked up.
ResolvedPattern(pattern, authPath, name) == ResolveTable[<<pattern, authPath, name>>]

ArtifactPath(app) == ExpandedPath(AppTemplates[app].AuthPath)

SnapshotPath(app, name) ==
    ResolvedPattern(AppTemplates[app].Pattern, ArtifactPath(app), name)

\* Every path the engine can touch.
Paths == {ArtifactPath(app) : app \in TemplateApps}
         \cup {SnapshotPath(app, n) : app \in TemplateApps, n \in Names}

fileOrDirExists(files, path) == files[path].t # "none"

isFolder(files, path) == files[path].t = "dir"

---------------------------------------------------------------------------
(* Artifact Copier.  A copy takes the failure it meets as an input:        *)
(* how = "open"  : Stat/Open of the source, MkdirAll or OpenFile fails,    *)
(*                 before anything is written;                             *)
(* how = "write" : io.Copy fails after the destination was truncated;      *)
(* how = "chmod" : the final Chmod fails, after the bytes were written.    *)
(* For a directory, at = 0 is the directory itself and at = k its k-th     *)
(* child in walk order.                                                    *)

NoFault == [at |-> 0, how |-> "none"]

CopyFaults == {NoFault}
              \cup [at : 0..Len(EntryOrder), how : {"open", "write", "chmod"}]

\* What a copy leaves, whether it failed, and whether it met its failure.
CopyResult(files, err, hit) == [fs |-> files, err |-> err, hit |-> hit]

\* copyFile on the paths of two regular files.
copyFile(files, src, dst, how) ==
    IF files[src].t = "none" THEN CopyResult(files, TRUE, FALSE)
    ELSE IF how = "open" THEN CopyResult(files, TRUE, TRUE)
    ELSE IF files[dst].t = "dir" THEN CopyResult(files, TRUE, FALSE)
    ELSE IF how = "write"
    THEN CopyResult([files EXCEPT ![dst] = File(Partial)], TRUE, TRUE)
    ELSE CopyResult([files EXCEPT ![dst] = File(files[src].c)],
                    how = "chmod", how = "chmod")

\* copyFile of one child of a folder onto the same child of the destination.
copyEntry(entries, c, n, how) ==
    IF how = "open" THEN [e |-> entries, err |-> TRUE]
    ELSE IF how = "write" THEN [e |-> [entries EXCEPT ![n] = Partial], err |-> TRUE]
    ELSE [e |-> [entries EXCEPT ![n] = c], err |-> how = "chmod"]

RECURSIVE walkEntries(_, _, _, _, _)
\* The walk over src's children from index i on; k counts the children met.
\* Every error of a child is the failure the copy was given.
walkEntries(srcE, dstE, i, k, fault) ==
    IF i > Len(EntryOrder) THEN [e |-> dstE, err |-> FALSE]
    ELSE LET n == EntryOrder[i] IN
         IF srcE[n] = NoEntry
         THEN walkEntries(srcE, dstE, i + 1, k, fault)
         ELSE LET r == copyEntry(dstE, srcE[n], n,
                                 IF fault.at = k THEN fault.how ELSE "none")
              IN IF r.err THEN r
                 ELSE walkEntries(srcE, r.e, i + 1, k + 1, fault)

\* copyFolder that empties an existing destination before the walk.
copyFolderReplace(files, src, dst, fault) ==
    IF files[dst].t = "file" THEN CopyResult(files, TRUE, FALSE)
    ELSE IF fault.at = 0 /\ fault.how = "open" THEN CopyResult(files, TRUE, TRUE)
    ELSE IF fault.at = 0 /\ fault.how = "chmod"
    THEN CopyResult([files EXCEPT ![dst] = Dir(NoEntries)], TRUE, TRUE)
    ELSE LET r == walkEntries(files[src].e, NoEntries, 1, 1, fault)
         IN CopyResult([files EXCEPT ![dst] = Dir(r.e)], r.err, r.err)

copyFolder(files, src, dst, fault) ==
    IF files[dst].t = "file" THEN CopyResult(files, TRUE, FALSE)
    ELSE IF fault.at = 0 /\ fault.how = "open" THEN CopyResult(files, TRUE, TRUE)
    ELSE LET made == IF files[dst].t = "dir" THEN files[dst].e ELSE NoEntries
         IN IF fault.at = 0 /\ fault.how = "chmod"
            THEN CopyResult([files EXCEPT ![dst] = Dir(made)], TRUE, TRUE)
            ELSE LET r == walkEntries(files[src].e, made, 1, 1, fault)
                 IN CopyResult([files EXCEPT ![dst] = Dir(r.e)], r.err, r.err)

copyPath(files, src, dst, fault) ==
    IF isFolder(files, src)
    THEN copyFolder(files, src, dst, fault)
    ELSE copyFile(files, src, dst, IF fault.at = 0 THEN fault.how ELSE "none")

---------------------------------------------------------------------------
(* Content Comparator.                                                     *)

\* json.Marshal of the parsed object is canonical: one text per document.
jsonEqual(a, b) == Marshal(a) = Marshal(b)

fileEqualOneSided(files, a, b) ==
    IF files[a].t # "file" \/ files[b].t # "file" THEN FALSE
    ELSE LET aData == TextOf(files[a].c)
             bData == TextOf(files[b].c)
             aJSON == Unmarshal(aData)
             bJSON == Unmarshal(bData)
         IN IF ~aJSON.err
            THEN jsonEqual(aJSON, bJSON)
            ELSE aData = bData

fileEqual(files, a, b) ==
    IF files[a].t # "file" \/ files[b].t # "file" THEN FALSE
    ELSE LET aData == TextOf(files[a].c)
             bData == TextOf(files[b].c)
             aJSON == Unmarshal(aData)
             bJSON == Unmarshal(bData)
         IN IF ~aJSON.err /\ ~bJSON.err
            THEN jsonEqual(aJSON, bJSON)
            ELSE aData = bData

folderEqual(files, a, b) ==
    IF files[a].t = "none" \/ files[b].t = "none" THEN FALSE
    ELSE files[a].t = "dir" /\ files[b].t = "dir"

contentEqual(files, a, b) ==
    IF isFolder(files, a) /\ isFolder(files, b) THEN folderEqual(files, a, b)
    ELSE IF ~isFolder(files, a) /\ ~isFolder(files, b) THEN fileEqual(files, a, b)
    ELSE FALSE

---------------------------------------------------------------------------
(* Registry (Config Store).                                                *)

NoApps == [a \in {} |-> a]

DefaultRegistry == [Default |-> "codex", Apps |-> NoApps]

\* A persisted file cut off inside the document: toml.Unmarshal fails on it.
Garbled == [Default |-> "?", Apps |-> NoApps]

\* No file at the persisted location: os.ReadFile fails with IsNotExist.
Absent == [Default |-> "-", Apps |-> NoApps]

\* A persisted location os.ReadFile fails on for another reason (no
\* permission to read it, a directory in its place).
Unreadable == [Default |-> "!", Apps |-> NoApps]

\* What a save can meet: "create", os.Create fails and the file is as it
\* was; "partial", the encoder fails after os.Create emptied the file and
\* leaves a document that does not parse.
SaveFaults == {"none", "create", "partial"}

\* saveConfig: os.Create truncates the file, the encoder then writes it.
saveConfig(cfg, dsk, how) ==
    CASE how = "none"    -> [disk |-> cfg, err |-> FALSE]
      [] how = "create"  -> [disk |-> dsk, err |-> TRUE]
      [] how = "partial" -> [disk |-> Garbled, err |-> TRUE]

GetAppConfig(cfg, appName) == cfg.Apps[appName]

HasAppConfig(cfg, appName) == appName \in DOMAIN cfg.Apps

SetAppConfig(cfg, appName, appConfig) ==
    [cfg EXCEPT !.Apps = [a \in DOMAIN cfg.Apps \cup {appName} |->
                            IF a = appName THEN appConfig ELSE cfg.Apps[a]]]

contains(slice, item) == \E i \in 1..Len(slice) : slice[i] = item

Rank(name) == CHOOSE i \in 1..Len(NameOrder) : NameOrder[i] = name

\* A sort that leaves the slice as it is.
SortStringsNone(s) == s

\* sort.Strings
SortStrings(s) == SortSeq(s, LAMBDA x, y : Rank(x) < Rank(y))

---------------------------------------------------------------------------
(* Switch Engine.  Each operation is computed from the registry in memory  *)
(* (cfg), the persisted registry (dsk), the file system (files), its       *)
(* arguments and the failures it meets; the result carries the new state,  *)
(* the error returned ("" for nil), the profile the call was about and the *)
(* number of failures met.                                                 *)

Result(cfg, dsk, files, err, target, hit) ==
    [config |-> cfg, disk |-> dsk, fs |-> files, err |-> err,
     target |-> target, hit |-> hit]

Hit(copy) == IF copy.hit THEN 1 ELSE 0

SaveHit(how) == IF how = "none" THEN 0 ELSE 1

\* os.RemoveAll
RemoveAll(files, path) == [files EXCEPT ![path] = Missing]

\* AddAccount, lines 337-342: the entry made from a built-in template.
FromTemplate(appName) ==
    [Current |-> "", Accounts |-> <<>>,
     AuthPath |-> AppTemplates[appName].AuthPath,
     SwitchPattern |-> AppTemplates[appName].Pattern]

\* AddAccount that appends the name without the test of line 366.
AddRegistryUpdateAlwaysAppend(appConfig, accountName) ==
    [appConfig EXCEPT !.Accounts = SortStrings(Append(appConfig.Accounts, accountName)),
                      !.Current = IF appConfig.Current = ""
                                  THEN accountName ELSE appConfig.Current]

\* AddAccount that records the current profile and forgets the append.
AddRegistryUpdateNoAppend(appConfig, accountName) ==
    [appConfig EXCEPT !.Current = IF appConfig.Current = ""
                                  THEN accountName ELSE appConfig.Current]

\* AddAccount that makes every added profile the current one.
AddRegistryUpdateAlwaysCurrent(appConfig, accountName) ==
    LET accounts == IF ~contains(appConfig.Accounts, accountName)
                    THEN SortStrings(Append(appConfig.Accounts, accountName))
                    ELSE appConfig.Accounts
    IN [appConfig EXCEPT !.Accounts = accounts, !.Current = accountName]

\* AddAccount, lines 366-372.
AddRegistryUpdate(appConfig, accountName) ==
    LET accounts == IF ~contains(appConfig.Accounts, accountName)
                    THEN SortStrings(Append(appConfig.Accounts, accountName))
                    ELSE appConfig.Accounts
    IN [appConfig EXCEPT !.Accounts = accounts,
                         !.Current = IF appConfig.Current = ""
                                     THEN accountName ELSE appConfig.Current]

\* AddAccount, lines 375-378: what a failed save leaves behind.
AddRollback(files, switchPath) == RemoveAll(files, switchPath)

\* AddAccount that stores the new entry before the copy.
AddCopyAndSaveEager(cfg, dsk, files, appName, appConfig, accountName, cf, sf) ==
    LET authPath   == ExpandedPath(appConfig.AuthPath)
        switchPath == ResolvedPattern(appConfig.SwitchPattern, authPath,
                                      accountName)
        cfg2       == SetAppConfig(cfg, appName,
                                   AddRegistryUpdate(appConfig, accountName))
        copy       == copyPath(files, authPath, switchPath, cf)
        save       == saveConfig(cfg2, dsk, sf)
    IN IF copy.err
       THEN Result(cfg2, dsk, copy.fs, "copy config", accountName, Hit(copy))
       ELSE IF save.err
       THEN Result(cfg2, save.disk, AddRollback(copy.fs, switchPath),
                   "save config", accountName, Hit(copy) + SaveHit(sf))
       ELSE Result(cfg2, save.disk, copy.fs, "", accountName,
                   Hit(copy) + SaveHit(sf))

\* AddAccount, lines 362-381: copy, register, save.
AddCopyAndSave(cfg, dsk, files, appName, appConfig, accountName, cf, sf) ==
    LET authPath   == ExpandedPath(appConfig.AuthPath)
        switchPath == ResolvedPattern(appConfig.SwitchPattern, authPath,
                                      accountName)
        copy       == copyPath(files, authPath, switchPath, cf)
        cfg2       == SetAppConfig(cfg, appName,
                                   AddRegistryUpdate(appConfig, accountName))
        save       == saveConfig(cfg2, dsk, sf)
    IN IF copy.err
       THEN Result(cfg, dsk, copy.fs, "copy config", accountName, Hit(copy))
       ELSE IF save.err
       THEN Result(cfg2, save.disk, AddRollback(copy.fs, switchPath),
                   "save config", accountName, Hit(copy) + SaveHit(sf))
       ELSE Result(cfg2, save.disk, copy.fs, "", accountName,
                   Hit(copy) + SaveHit(sf))

\* AddAccount without the os.Stat of lines 332-335.
AddAccountResultNoStat(cfg, dsk, files, appName, accountName, answer, cf, sf) ==
    IF ~HasAppConfig(cfg, appName) /\ appName \notin TemplateApps
    THEN Result(cfg, dsk, files, "no configuration found", accountName, 0)
    ELSE LET appConfig == IF HasAppConfig(cfg, appName)
                          THEN GetAppConfig(cfg, appName)
                          ELSE FromTemplate(appName)
         IN IF contains(appConfig.Accounts, accountName) /\ answer = "no"
            THEN Result(cfg, dsk, files, "cancelled by user", accountName, 0)
            ELSE AddCopyAndSave(cfg, dsk, files, appName, appConfig,
                                accountName, cf, sf)

\* AddAccount that copies before it asks whether to overwrite.
AddAccountResultCopiesFirst(cfg, dsk, files, appName, accountName, answer, cf, sf) ==
    IF ~HasAppConfig(cfg, appName) /\ appName \notin TemplateApps
    THEN Result(cfg, dsk, files, "no configuration found", accountName, 0)
    ELSE IF ~HasAppConfig(cfg, appName)
            /\ ~fileOrDirExists(files, ExpandedPath(AppTemplates[appName].AuthPath))
    THEN Result(cfg, dsk, files, "auth path not found", accountName, 0)
    ELSE LET appConfig  == IF HasAppConfig(cfg, appName)
                           THEN GetAppConfig(cfg, appName)
                           ELSE FromTemplate(appName)
             authPath   == ExpandedPath(appConfig.AuthPath)
             switchPath == ResolvedPattern(appConfig.SwitchPattern, authPath,
                                           accountName)
             copy       == copyPath(files, authPath, switchPath, cf)
         IN IF contains(appConfig.Accounts, accountName) /\ answer = "no"
            THEN Result(cfg, dsk, copy.fs, "cancelled by user", accountName,
                        Hit(copy))
            ELSE AddCopyAndSave(cfg, dsk, files, appName, appConfig,
                                accountName, cf, sf)

AddAccountResult(cfg, dsk, files, appName, accountName, answer, cf, sf) ==
    IF ~HasAppConfig(cfg, appName) /\ appName \notin TemplateApps
    THEN Result(cfg, dsk, files, "no configuration found", accountName, 0)
    ELSE IF ~HasAppConfig(cfg, appName)
            /\ ~fileOrDirExists(files, ExpandedPath(AppTemplates[appName].AuthPath))
    THEN Result(cfg, dsk, files, "auth path not found", accountName, 0)
    ELSE LET appConfig == IF HasAppConfig(cfg, appName)
                          THEN GetAppConfig(cfg, appName)
                          ELSE FromTemplate(appName)
         IN IF contains(appConfig.Accounts, accountName) /\ answer = "no"
            THEN Result(cfg, dsk, files, "cancelled by user", accountName, 0)
            ELSE AddCopyAndSave(cfg, dsk, files, appName, appConfig,
                                accountName, cf, sf)

\* findCurrentAccount that goes on after a match and returns the last one.
firstMatchLast(files, authPath, pattern, accounts, i) ==
    LET hits == {j \in i..Len(accounts) :
                    LET switchPath == ResolvedPattern(pattern, authPath, accounts[j])
                    IN fileOrDirExists(files, switchPath)
                       /\ contentEqual(files, authPath, switchPath)}
    IN IF hits = {} THEN ""
       ELSE accounts[CHOOSE j \in hits : \A k \in hits : k <= j]

RECURSIVE firstMatch(_, _, _, _, _)
\* findCurrentAccount, lines 470-479: the loop from index i on.
firstMatch(files, authPath, pattern, accounts, i) ==
    IF i > Len(accounts) THEN ""
    ELSE LET switchPath == ResolvedPattern(pattern, authPath, accounts[i])
         IN IF fileOrDirExists(files, switchPath)
               /\ contentEqual(files, authPath, switchPath)
            THEN accounts[i]
            ELSE firstMatch(files, authPath, pattern, accounts, i + 1)

findCurrentAccount(cfg, files, appName) ==
    IF ~HasAppConfig(cfg, appName) THEN ""
    ELSE LET appConfig == GetAppConfig(cfg, appName)
             authPath  == ExpandedPath(appConfig.AuthPath)
         IN IF ~fileOrDirExists(files, authPath) THEN ""
            ELSE firstMatch(files, authPath, appConfig.SwitchPattern,
                            appConfig.Accounts, 1)

\* SwitchAccount, line 406.
NeedsBackup(currentAccount, accountName) ==
    currentAccount # "" /\ currentAccount # accountName

\* SwitchAccount that stores the entry without setting Current.
SwitchRegistryUpdateStale(appConfig, accountName) == appConfig

\* SwitchAccount, line 415.
SwitchRegistryUpdate(appConfig, accountName) ==
    [appConfig EXCEPT !.Current = accountName]

\* SwitchAccount, lines 405-409: the write-back, whose error is dropped.
BackupCurrent(files, appConfig, authPath, currentAccount, accountName, bf) ==
    IF NeedsBackup(currentAccount, accountName)
    THEN copyPath(files, authPath,
                  ResolvedPattern(appConfig.SwitchPattern, authPath,
                                  currentAccount), bf)
    ELSE CopyResult(files, FALSE, FALSE)

\* SwitchAccount that records and saves the new current profile before the
\* swap, and so keeps it when the swap fails.
SwapAndRecordEager(cfg, dsk, files, appName, appConfig, accountName, hit, cf, sf) ==
    LET authPath   == ExpandedPath(appConfig.AuthPath)
        switchPath == ResolvedPattern(appConfig.SwitchPattern, authPath,
                                      accountName)
        cfg2       == SetAppConfig(cfg, appName,
                                   SwitchRegistryUpdate(appConfig, accountName))
        save       == saveConfig(cfg2, dsk, sf)
        copy       == copyPath(files, switchPath, authPath, cf)
    IN Result(cfg2, save.disk, copy.fs,
              IF copy.err THEN "switch config" ELSE "", accountName,
              hit + Hit(copy) + SaveHit(sf))

\* SwitchAccount, lines 411-426: the swap, then the registry.
SwapAndRecord(cfg, dsk, files, appName, appConfig, accountName, hit, cf, sf) ==
    LET authPath   == ExpandedPath(appConfig.AuthPath)
        switchPath == ResolvedPattern(appConfig.SwitchPattern, authPath,
                                      accountName)
        copy       == copyPath(files, switchPath, authPath, cf)
        cfg2       == SetAppConfig(cfg, appName,
                                   SwitchRegistryUpdate(appConfig, accountName))
        save       == saveConfig(cfg2, dsk, sf)
    IN IF copy.err
       THEN Result(cfg, dsk, copy.fs, "switch config", accountName,
                   hit + Hit(copy))
       ELSE Result(cfg2, save.disk, copy.fs, "", accountName,
                   hit + Hit(copy) + SaveHit(sf))

\* SwitchAccount that looks for the target snapshot after the write-back.
SwitchNamedLateCheck(cfg, dsk, files, appName, accountName, bf, cf, sf) ==
    LET appConfig  == GetAppConfig(cfg, appName)
        authPath   == ExpandedPath(appConfig.AuthPath)
        switchPath == ResolvedPattern(appConfig.SwitchPattern, authPath,
                                      accountName)
        currentAccount == findCurrentAccount(cfg, files, appName)
        backup     == BackupCurrent(files, appConfig, authPath,
                                    currentAccount, accountName, bf)
    IN IF ~contains(appConfig.Accounts, accountName)
       THEN Result(cfg, dsk, files, "account not found", accountName, 0)
       ELSE IF ~fileOrDirExists(files, switchPath)
       THEN Result(cfg, dsk, backup.fs, "switch file not found", accountName,
                   Hit(backup))
       ELSE SwapAndRecord(cfg, dsk, backup.fs, appName, appConfig,
                          accountName, Hit(backup), cf, sf)

\* SwitchAccount without the test of line 394.
SwitchNamedUnchecked(cfg, dsk, files, appName, accountName, bf, cf, sf) ==
    LET appConfig  == GetAppConfig(cfg, appName)
        authPath   == ExpandedPath(appConfig.AuthPath)
        switchPath == ResolvedPattern(appConfig.SwitchPattern, authPath,
                                      accountName)
        currentAccount == findCurrentAccount(cfg, files, appName)
    IN IF ~fileOrDirExists(files, switchPath)
       THEN Result(cfg, dsk, files, "switch file not found", accountName, 0)
       ELSE LET backup == BackupCurrent(files, appConfig, authPath,
                                        currentAccount, accountName, bf)
            IN SwapAndRecord(cfg, dsk, backup.fs, appName, appConfig,
                             accountName, Hit(backup), cf, sf)

\* SwitchAccount that records the asked profile as current before it looks
\* for it in Accounts.
SwitchNamedRecordsFirst(cfg, dsk, files, appName, accountName, bf, cf, sf) ==
    LET appConfig  == GetAppConfig(cfg, appName)
        authPath   == ExpandedPath(appConfig.AuthPath)
        switchPath == ResolvedPattern(appConfig.SwitchPattern, authPath,
                                      accountName)
        currentAccount == findCurrentAccount(cfg, files, appName)
        cfg1       == SetAppConfig(cfg, appName,
                                   SwitchRegistryUpdate(appConfig, accountName))
    IN IF ~contains(appConfig.Accounts, accountName)
       THEN Result(cfg1, dsk, files, "account not found", accountName, 0)
       ELSE IF ~fileOrDirExists(files, switchPath)
       THEN Result(cfg1, dsk, files, "switch file not found", accountName, 0)
       ELSE LET backup == BackupCurrent(files, appConfig, authPath,
                                        currentAccount, accountName, bf)
            IN SwapAndRecord(cfg1, dsk, backup.fs, appName, appConfig,
                             accountName, Hit(backup), cf, sf)

\* SwitchAccount, lines 394-426: the call with a non-empty account name.
SwitchNamed(cfg, dsk, files, appName, accountName, bf, cf, sf) ==
    LET appConfig  == GetAppConfig(cfg, appName)
        authPath   == ExpandedPath(appConfig.AuthPath)
        switchPath == ResolvedPattern(appConfig.SwitchPattern, authPath,
                                      accountName)
        currentAccount == findCurrentAccount(cfg, files, appName)
    IN IF ~contains(appConfig.Accounts, accountName)
       THEN Result(cfg, dsk, files, "account not found", accountName, 0)
       ELSE IF ~fileOrDirExists(files, switchPath)
       THEN Result(cfg, dsk, files, "switch file not found", accountName, 0)
       ELSE LET backup == BackupCurrent(files, appConfig, authPath,
                                        currentAccount, accountName, bf)
            IN SwapAndRecord(cfg, dsk, backup.fs, appName, appConfig,
                             accountName, Hit(backup), cf, sf)

\* CycleAccounts, lines 443-455.
NextAccount(accounts, current) ==
    IF current = "" THEN accounts[1]
    ELSE IF contains(accounts, current)
         THEN LET i    == CHOOSE j \in 1..Len(accounts) :
                             /\ accounts[j] = current
                             /\ \A k \in 1..(j - 1) : accounts[k] # current
                  next == accounts[(i % Len(accounts)) + 1]
              IN IF next = "" THEN accounts[1] ELSE next
         ELSE accounts[1]

RECURSIVE SwitchAccountCall(_, _, _, _, _, _, _, _, _)
RECURSIVE CycleAccountsCall(_, _, _, _, _, _, _, _)

\* CycleAccounts as the d-th call on the stack.  It ends in a call of
\* SwitchAccount, which for the name "" calls CycleAccounts again; a chain of
\* calls deeper than the stack allows is ended by the runtime with the fatal
\* error "stack overflow", which ends the process.
CycleAccountsCall(cfg, dsk, files, appName, bf, cf, sf, d) ==
    IF d > MaxStack
    THEN Result(cfg, dsk, files, "stack overflow", "", 0)
    ELSE IF ~HasAppConfig(cfg, appName)
    THEN Result(cfg, dsk, files, "no configuration found", "", 0)
    ELSE LET appConfig == GetAppConfig(cfg, appName)
             current   == findCurrentAccount(cfg, files, appName)
         IN IF Len(appConfig.Accounts) = 0
            THEN Result(cfg, dsk, files, "no accounts", "", 0)
            ELSE SwitchAccountCall(cfg, dsk, files, appName,
                                   NextAccount(appConfig.Accounts, current),
                                   bf, cf, sf, d + 1)

\* SwitchAccount as the d-th call on the stack.
SwitchAccountCall(cfg, dsk, files, appName, accountName, bf, cf, sf, d) ==
    IF d > MaxStack
    THEN Result(cfg, dsk, files, "stack overflow", "", 0)
    ELSE IF ~HasAppConfig(cfg, appName)
    THEN Result(cfg, dsk, files, "no configuration found", "", 0)
    ELSE IF accountName = ""
    THEN CycleAccountsCall(cfg, dsk, files, appName, bf, cf, sf, d + 1)
    ELSE SwitchNamed(cfg, dsk, files, appName, accountName, bf, cf, sf)

\* CycleAccounts called by the command line.
CycleAccountsResult(cfg, dsk, files, appName, bf, cf, sf) ==
    CycleAccountsCall(cfg, dsk, files, appName, bf, cf, sf, 1)

\* SwitchAccount called by the command line.
SwitchAccountResult(cfg, dsk, files, appName, accountName, bf, cf, sf) ==
    SwitchAccountCall(cfg, dsk, files, appName, accountName, bf, cf, sf, 1)

---------------------------------------------------------------------------
(* The state machine.                                                      *)
(*   config : the registry held by the Switcher (s.config)                 *)
(*   disk   : the registry file ~/.switch.toml                             *)
(*   fs     : the live artifacts and the snapshots                         *)
(*   last   : the latest call, its arguments and the error it returned     *)
(*   walk   : the profile active when a run of clean CycleAccounts calls   *)
(*            began, followed by the profile each call of the run chose    *)
(*   faults : the I/O failures met so far                                  *)
(*   edits  : the rewrites of the live artifact so far                     *)
(*   call   : the latest call of a helper made on its own (expandPath,     *)
(*            contentEqual), its arguments and results                     *)

\* Contents a child of a directory artifact starts with or is edited to.
DirContents == {1, 3}

\* The artifact an application keeps at its path: a file or a folder.
InitialNodes(app) ==
    IF app = "codex"
    THEN {File(c) : c \in Contents}
    ELSE {Dir([n \in EntryNames |-> IF n = EntryOrder[1] THEN 1 ELSE NoEntry])}

Call(op, app, r) ==
    [op |-> op, app |-> app, err |-> r.err, target |-> r.target]

NoCall(op, app, err) == [op |-> op, app |-> app, err |-> err, target |-> ""]

\* No helper has been called on its own.
NoHelperCall == [fn |-> "none"]

Init ==
    /\ config = DefaultRegistry
    /\ disk = DefaultRegistry
    /\ \E app \in TemplateApps : \E node \in InitialNodes(app) :
           fs = [p \in Paths |-> IF p = ArtifactPath(app) THEN node ELSE Missing]
    /\ last = NoCall("init", "", "")
    /\ walk = <<>>
    /\ faults = 0
    /\ edits = 0
    /\ call = NoHelperCall

Apply(r) ==
    /\ faults + r.hit <= MaxFaults
    /\ config' = r.config
    /\ disk' = r.disk
    /\ fs' = r.fs
    /\ faults' = faults + r.hit
    /\ UNCHANGED <<edits, call>>

\* The failures a copy of a folder or of a file can meet.
CopyFaultsOn(folder) ==
    IF folder THEN CopyFaults ELSE {f \in CopyFaults : f.at = 0}

\* One more failure in a plan of failures for the write-back, the copy and
\* the save of one call.
OneMore(p, folder) ==
    {p}
    \cup {<<f, p[2], p[3]>> : f \in IF p[1] = NoFault THEN CopyFaultsOn(folder) ELSE {}}
    \cup {<<p[1], f, p[3]>> : f \in IF p[2] = NoFault THEN CopyFaultsOn(folder) ELSE {}}
    \cup {<<p[1], p[2], x>> : x \in IF p[3] = "none" THEN SaveFaults ELSE {}}

RECURSIVE PlansUpTo(_, _)
\* The plans of at most k failures.
PlansUpTo(k, folder) ==
    IF k = 0 THEN {<<NoFault, NoFault, "none">>}
    ELSE UNION {OneMore(p, folder) : p \in PlansUpTo(k - 1, folder)}

\* The failures one call can meet, by the failures still to come.
FaultPlans(appName) ==
    PlansUpTo(IF MaxFaults - faults > 3 THEN 3 ELSE MaxFaults - faults,
              appName \in TemplateApps /\ isFolder(fs, ArtifactPath(appName)))

AddAccount(appName, accountName) ==
    \E answer \in {"yes", "no"}, p \in FaultPlans(appName) :
        LET r == AddAccountResult(config, disk, fs, appName, accountName,
                                  answer, p[2], p[3])
        IN /\ p[1] = NoFault
           /\ answer = "no" => HasAppConfig(config, appName)
           /\ Apply(r)
           /\ last' = Call("add", appName, r)
           /\ walk' = <<>>

SwitchAccount(appName, accountName) ==
    \E p \in FaultPlans(appName) :
        LET r == SwitchAccountResult(config, disk, fs, appName, accountName,
                                     p[1], p[2], p[3])
        IN /\ Apply(r)
           /\ last' = Call("switch", appName, r)
           /\ walk' = <<>>

\* Whether two nodes hold different content: for files under the comparator.
Differ(files, a, b) ==
    IF files[a].t = "file" /\ files[b].t = "file"
    THEN ~fileEqual(files, a, b)
    ELSE files[a] # files[b]

\* The profiles whose snapshot holds exactly what the live artifact holds.
ActiveProfiles(cfg, files, appName) ==
    LET appConfig == GetAppConfig(cfg, appName)
        authPath  == ExpandedPath(appConfig.AuthPath)
    IN {n \in Names :
          /\ contains(appConfig.Accounts, n)
          /\ files[ResolvedPattern(appConfig.SwitchPattern, authPath, n)]
               = files[authPath]}

\* All snapshots exist, no two hold the same content, one profile is active.
WalkStart(cfg, files, appName) ==
    /\ HasAppConfig(cfg, appName)
    /\ LET appConfig == GetAppConfig(cfg, appName)
           authPath  == ExpandedPath(appConfig.AuthPath)
           snap(n)   == ResolvedPattern(appConfig.SwitchPattern, authPath, n)
           names     == {n \in Names : contains(appConfig.Accounts, n)}
       IN /\ names # {}
          /\ \A n \in names : fileOrDirExists(files, snap(n))
          /\ \A n \in names : \A m \in names \ {n} : Differ(files, snap(n), snap(m))
          /\ Cardinality(ActiveProfiles(cfg, files, appName)) = 1

WalkNext(appName, r) ==
    IF r.err # "" \/ r.hit # 0 THEN <<>>
    ELSE IF walk = <<>>
    THEN IF WalkStart(config, fs, appName)
         THEN <<CHOOSE n \in ActiveProfiles(config, fs, appName) : TRUE, r.target>>
         ELSE <<>>
    ELSE IF Len(walk) <= Len(GetAppConfig(config, appName).Accounts)
    THEN Append(walk, r.target)
    ELSE walk

CycleAccounts(appName) ==
    \E p \in FaultPlans(appName) :
        LET r == CycleAccountsResult(config, disk, fs, appName, p[1], p[2], p[3])
        IN /\ Apply(r)
           /\ last' = Call("cycle", appName, r)
           /\ walk' = WalkNext(appName, r)

\* The application rewrites its own live file while a profile is in use.
ExternalEditFile(appName, c) ==
    /\ fs[ArtifactPath(appName)].t = "file"
    /\ fs' = [fs EXCEPT ![ArtifactPath(appName)] = File(c)]
    /\ last' = NoCall("edit", appName, "")
    /\ walk' = <<>>
    /\ edits < MaxEdits
    /\ edits' = edits + 1
    /\ UNCHANGED <<config, disk, faults, call>>

\* The application writes or deletes a child of its live folder.
ExternalEditFolder(appName, n, c) ==
    /\ fs[ArtifactPath(appName)].t = "dir"
    /\ fs' = [fs EXCEPT ![ArtifactPath(appName)] = Dir([@.e EXCEPT ![n] = c])]
    /\ last' = NoCall("edit", appName, "")
    /\ walk' = <<>>
    /\ edits < MaxEdits
    /\ edits' = edits + 1
    /\ UNCHANGED <<config, disk, faults, call>>

\* loadConfig that makes the default registry without saving it.
loadConfigNoSave(cfg, dsk, sf) ==
    IF dsk = Absent
    THEN [config |-> DefaultRegistry, disk |-> dsk, err |-> "", hit |-> 0]
    ELSE IF dsk = Unreadable
    THEN [config |-> cfg, disk |-> dsk, err |-> "read config", hit |-> 0]
    ELSE IF dsk = Garbled
    THEN [config |-> cfg, disk |-> dsk, err |-> "parse config", hit |-> 0]
    ELSE [config |-> dsk, disk |-> dsk, err |-> "", hit |-> 0]

\* loadConfig: a missing file makes the default registry, which is saved
\* at once (the save meets sf); a file that cannot be read or parsed is an
\* error and is left alone; any other file is the registry.
loadConfig(cfg, dsk, sf) ==
    IF dsk = Absent
    THEN LET save == saveConfig(DefaultRegistry, dsk, sf)
         IN [config |-> DefaultRegistry, disk |-> save.disk,
             err |-> IF ~save.err THEN ""
                     ELSE IF sf = "create" THEN "create config" ELSE "encode config",
             hit |-> SaveHit(sf)]
    ELSE IF dsk = Unreadable
    THEN [config |-> cfg, disk |-> dsk, err |-> "read config", hit |-> 0]
    ELSE IF dsk = Garbled
    THEN [config |-> cfg, disk |-> dsk, err |-> "parse config", hit |-> 0]
    ELSE [config |-> dsk, disk |-> dsk, err |-> "", hit |-> 0]

\* A new process: NewSwitcher loads the registry from the persisted file.
NewSwitcher ==
    \E sf \in SaveFaults :
       /\ sf # "none" => (disk = Absent /\ faults < MaxFaults)
       /\ LET r == loadConfig(config, disk, sf)
          IN /\ config' = r.config
             /\ disk' = r.disk
             /\ faults' = faults + r.hit
             /\ last' = NoCall("new", "", r.err)
             /\ walk' = <<>>
             /\ UNCHANGED <<fs, edits, call>>

\* The applications present on the machine: their artifact exists.
InstalledApps == {a \in TemplateApps : fileOrDirExists(fs, ArtifactPath(a))}

Next ==
    \/ \E appName \in InstalledApps, accountName \in Names :
           AddAccount(appName, accountName)
    \/ \E appName \in InstalledApps, accountName \in Names :
           SwitchAccount(appName, accountName)
    \/ \E appName \in InstalledApps : CycleAccounts(appName)
    \/ \E appName \in TemplateApps, c \in Contents : ExternalEditFile(appName, c)
    \/ \E appName \in TemplateApps, n \in EntryNames,
          c \in DirContents \cup {NoEntry} : ExternalEditFolder(appName, n, c)
    \/ NewSwitcher

Spec == Init /\ [][Next]_vars

---------------------------------------------------------------------------
(* The engine called for any application, with or without a template, an   *)
(* artifact or a registry entry, and the setup wizard.                     *)

\* Applications named on the command line; "myapp" has no template.
AppNames == TemplateApps \cup {"myapp"}

\* RunWizard, lines 873 and 748-753: the entry the wizard stores for a
\* detected application before it calls AddAccount.
WizardEntry(appName, profile) ==
    [Current |-> profile, Accounts |-> <<>>,
     AuthPath |-> expandPath(AppTemplates[appName].AuthPath),
     SwitchPattern |-> AppTemplates[appName].Pattern]

\* RunWizard for a detected application that has no entry, every prompt but
\* the profile name answered with its default.
RunWizard(appName, profile) ==
    \E p \in FaultPlans(appName) :
        LET r == AddAccountResult(SetAppConfig(config, appName,
                                               WizardEntry(appName, profile)),
                                  disk, fs, appName, profile, "yes", p[2], p[3])
        IN /\ ~HasAppConfig(config, appName)
           /\ p[1] = NoFault
           /\ Apply(r)
           /\ last' = Call("wizard", appName, r)
           /\ walk' = <<>>

NextApps ==
    \/ \E appName \in InstalledApps, profile \in Names : RunWizard(appName, profile)
    \/ \E appName \in AppNames, accountName \in Names :
           AddAccount(appName, accountName)
    \/ \E appName \in AppNames, accountName \in Names :
           SwitchAccount(appName, accountName)
    \/ \E appName \in AppNames : CycleAccounts(appName)

SpecApps == Init /\ [][NextApps]_vars

---------------------------------------------------------------------------
(* expandPath called on its own, and again on its result.                  *)

\* Segments per input path.
MaxSegments == 3

\* The segments of the input paths: the home marker, a name that begins
\* with it, the dot segments, the empty segment of a doubled or trailing
\* separator, and a plain name.
Segments == {"~", "~u", ".", "..", "", "a"}

\* Relative paths of n segments; the first one is not empty.
RelativePaths(n) == {p \in [1..n -> Segments] : n > 0 => p[1] # ""}

\* The input paths: relative ones and absolute ones, "" included.
InputPaths ==
    UNION {RelativePaths(n) : n \in 0..MaxSegments}
    \cup UNION {{<<"/">> \o p : p \in [1..n -> Segments]} : n \in 0..(MaxSegments - 1)}

\* The engine at rest: nothing registered, no operation called.
EngineIdle ==
    /\ config = DefaultRegistry
    /\ last = NoCall("init", "", "")
    /\ walk = <<>>
    /\ faults = 0
    /\ edits = 0

InitExpand ==
    /\ EngineIdle
    /\ disk = DefaultRegistry
    /\ fs = [p \in Paths |-> Missing]
    /\ \E p \in InputPaths : call = [fn |-> "input", arg |-> p, out |-> <<>>, again |-> <<>>]

\* expandPath(p)
Expand ==
    /\ call.fn = "input"
    /\ call' = [call EXCEPT !.fn = "expandPath", !.out = expandPath(call.arg)]
    /\ UNCHANGED <<config, disk, fs, last, walk, faults, edits>>

\* expandPath(expandPath(p))
ExpandAgain ==
    /\ call.fn = "expandPath"
    /\ call' = [call EXCEPT !.fn = "expandPath twice", !.again = expandPath(call.out)]
    /\ UNCHANGED <<config, disk, fs, last, walk, faults, edits>>

NextExpand == Expand \/ ExpandAgain

SpecExpand == InitExpand /\ [][NextExpand]_vars

---------------------------------------------------------------------------
(* contentEqual called on its own, on a pair of paths and on the swapped   *)
(* pair.                                                                   *)

\* The two paths that are compared.
ComparedPaths == {ArtifactPath("codex"), SnapshotPath("codex", "a")}

\* What a compared path can be: missing, a file with any text, a directory
\* that is empty or holds a child.
ComparedNodes ==
    {Missing}
    \cup {File(c) : c \in TextIds}
    \cup {Dir([n \in EntryNames |-> IF n = EntryOrder[1] THEN c ELSE NoEntry]) :
              c \in DirContents \cup {NoEntry}}

InitCompare ==
    /\ EngineIdle
    /\ disk = DefaultRegistry
    /\ \E x, y \in ComparedNodes :
          fs = [p \in Paths |-> IF p = ArtifactPath("codex") THEN x
                                ELSE IF p = SnapshotPath("codex", "a") THEN y
                                ELSE Missing]
    /\ \E a, b \in ComparedPaths :
          call = [fn |-> "input", a |-> a, b |-> b, out |-> FALSE, back |-> FALSE]

\* contentEqual(a, b) and contentEqual(b, a)
Compare ==
    /\ call.fn = "input"
    /\ call' = [call EXCEPT !.fn = "contentEqual",
                            !.out = contentEqual(fs, call.a, call.b),
                            !.back = contentEqual(fs, call.b, call.a)]
    /\ UNCHANGED <<config, disk, fs, last, walk, faults, edits>>

NextCompare == Compare

SpecCompare == InitCompare /\ [][NextCompare]_vars

---------------------------------------------------------------------------
(* NewSwitcher on every state of the persisted location.                   *)

\* The entries a persisted registry can hold for an application.
PersistedEntries(appName) ==
    {[FromTemplate(appName) EXCEPT
          !.Current = c,
          !.Accounts = SelectSeq(NameOrder, LAMBDA n : n \in accounts)] :
       c \in Names, accounts \in SUBSET Names}

\* The registries with applications a persisted file can hold.
PersistedRegistries ==
    UNION {{[Default |-> "codex", Apps |-> apps] :
               apps \in {f \in [D -> UNION {PersistedEntries(a) : a \in D}] :
                            \A a \in D : f[a] \in PersistedEntries(a)}} :
             D \in (SUBSET TemplateApps) \ {{}}}

\* What NewSwitcher can find at the persisted location.
PersistedStates == {Absent, Unreadable, Garbled} \cup PersistedRegistries

InitLoad ==
    /\ EngineIdle
    /\ disk \in PersistedStates
    /\ fs = [p \in Paths |-> Missing]
    /\ call = NoHelperCall

NextLoad == NewSwitcher

SpecLoad == InitLoad /\ [][NextLoad]_vars

---------------------------------------------------------------------------
(* findCurrentAccount called on its own, twice, on every arrangement of    *)
(* the live artifact and the snapshots of one application.                 *)

\* What the live artifact or a snapshot can be.
FoundNodes ==
    {Missing}
    \cup {File(c) : c \in Contents}
    \cup {Dir(NoEntries), Dir([n \in EntryNames |-> IF n = EntryOrder[1] THEN 1 ELSE NoEntry])}

\* The registries whose only entry is the one of appName, with any
\* accounts, and the registry without an entry.
FoundRegistries(appName) ==
    {DefaultRegistry}
    \cup {SetAppConfig(DefaultRegistry, appName, e) :
             e \in {x \in PersistedEntries(appName) : x.Current = ""}}

InitFind ==
    /\ disk = DefaultRegistry
    /\ last = NoCall("init", "", "")
    /\ walk = <<>>
    /\ faults = 0
    /\ edits = 0
    /\ \E appName \in TemplateApps :
          /\ config \in FoundRegistries(appName)
          /\ \E live \in FoundNodes, snaps \in [Names -> FoundNodes] :
                fs = [p \in Paths |->
                         IF p = ArtifactPath(appName) THEN live
                         ELSE IF \E n \in Names : p = SnapshotPath(appName, n)
                         THEN snaps[CHOOSE n \in Names : p = SnapshotPath(appName, n)]
                         ELSE Missing]
          /\ call = [fn |-> "input", app |-> appName, out |-> "", again |-> ""]

\* s.findCurrentAccount(appName)
FindCurrent ==
    /\ call.fn = "input"
    /\ call' = [call EXCEPT !.fn = "findCurrentAccount",
                            !.out = findCurrentAccount(config, fs, call.app)]
    /\ UNCHANGED <<config, disk, fs, last, walk, faults, edits>>

\* s.findCurrentAccount(appName), once more
FindCurrentAgain ==
    /\ call.fn = "findCurrentAccount"
    /\ call' = [call EXCEPT !.fn = "findCurrentAccount again",
                            !.again = findCurrentAccount(config, fs, call.app)]
    /\ UNCHANGED <<config, disk, fs, last, walk, faults, edits>>

NextFind == FindCurrent \/ FindCurrentAgain

SpecFind == InitFind /\ [][NextFind]_vars

---------------------------------------------------------------------------
(* AddAccount for an application whose snapshots lie inside its artifact:  *)
(* the built-in cursor template (ssh has the same shape).  Here fs is a    *)
(* tree: a function from the paths that exist to their nodes, a directory  *)
(* holding the paths one segment longer.                                   *)

CursorTemplate ==
    [AuthPath |-> <<"~", ".cursor">>,
     Pattern  |-> << <<"~">>, <<".cursor">>, <<"profiles">>,
                     <<"{name}", ".switch">> >>]

\* The names a directory of the tree can hold, in lexical order: snapshots,
\* the children of the artifact, the directory of the snapshots.
ChildOrder ==
    [i \in 1..Len(NameOrder) |-> NameOrder[i] \o ".switch"]
    \o EntryOrder \o <<"profiles">>

TreeDir == Dir(NoEntries)

TreeExists(t, p) == p \in DOMAIN t

TreeIsFolder(t, p) == p \in DOMAIN t /\ t[p].t = "dir"

\* os.MkdirAll: the directory and its missing parents; a path beyond the
\* limit of the operating system is an error.
TreeMkdirAll(t, p) ==
    IF Len(p) > MaxPathLen THEN [t |-> t, err |-> TRUE]
    ELSE LET made == {SubSeq(p, 1, k) : k \in 1..Len(p)} \ DOMAIN t
         IN [t |-> [q \in DOMAIN t \cup made |->
                       IF q \in DOMAIN t THEN t[q] ELSE TreeDir],
             err |-> FALSE]

\* copyFile on the tree, lines 220-248.
TreeCopyFile(t, src, dst) ==
    IF ~TreeExists(t, src) \/ Len(dst) > MaxPathLen THEN [t |-> t, err |-> TRUE]
    ELSE LET parent == TreeMkdirAll(t, Front(dst))
         IN IF parent.err THEN parent
            ELSE [t |-> [q \in DOMAIN parent.t \cup {dst} |->
                            IF q = dst THEN File(t[src].c) ELSE parent.t[q]],
                  err |-> FALSE]

\* The names in a directory, sorted, as filepath.Walk reads them.
readDirNames(t, p) ==
    SelectSeq(ChildOrder, LAMBDA n : Append(p, n) \in DOMAIN t)

RECURSIVE TreeWalk(_, _, _, _)
RECURSIVE TreeWalkNames(_, _, _, _, _, _)
\* filepath.Walk with the function of copyFolder, lines 251-269: for a
\* directory the names are read first, then the function makes the
\* directory in the destination, then each name is walked, on the tree as
\* the walk has left it so far.
TreeWalk(t, path, src, dst) ==
    LET dstPath == dst \o SubSeq(path, Len(src) + 1, Len(path))
    IN IF ~TreeIsFolder(t, path) THEN TreeCopyFile(t, path, dstPath)
       ELSE LET names == readDirNames(t, path)
                made  == TreeMkdirAll(t, dstPath)
            IN IF made.err THEN made
               ELSE TreeWalkNames(made.t, path, names, 1, src, dst)

TreeWalkNames(t, path, names, i, src, dst) ==
    IF i > Len(names) THEN [t |-> t, err |-> FALSE]
    ELSE LET r == TreeWalk(t, Append(path, names[i]), src, dst)
         IN IF r.err THEN r
            ELSE TreeWalkNames(r.t, path, names, i + 1, src, dst)

TreeCopyFolder(t, src, dst) == TreeWalk(t, src, src, dst)

TreeCopyPath(t, src, dst) ==
    IF TreeIsFolder(t, src) THEN TreeCopyFolder(t, src, dst)
    ELSE TreeCopyFile(t, src, dst)

\* os.RemoveAll
TreeRemoveAll(t, p) ==
    [q \in {x \in DOMAIN t : Len(x) < Len(p) \/ SubSeq(x, 1, Len(p)) # p} |-> t[q]]

\* AddAccount, lines 324-382, for "cursor" on the tree; the save meets sf.
TreeAddAccountResult(cfg, dsk, t, accountName, answer, sf) ==
    IF ~HasAppConfig(cfg, "cursor")
       /\ ~TreeExists(t, expandPath(CursorTemplate.AuthPath))
    THEN Result(cfg, dsk, t, "auth path not found", accountName, 0)
    ELSE LET appConfig  == IF HasAppConfig(cfg, "cursor")
                           THEN GetAppConfig(cfg, "cursor")
                           ELSE [Current |-> "", Accounts |-> <<>>,
                                 AuthPath |-> CursorTemplate.AuthPath,
                                 SwitchPattern |-> CursorTemplate.Pattern]
             authPath   == expandPath(appConfig.AuthPath)
             switchPath == resolveSwitchPattern(appConfig.SwitchPattern,
                                                authPath, accountName)
             copy       == TreeCopyPath(t, authPath, switchPath)
             cfg2       == SetAppConfig(cfg, "cursor",
                                        AddRegistryUpdate(appConfig, accountName))
             save       == saveConfig(cfg2, dsk, sf)
         IN IF contains(appConfig.Accounts, accountName) /\ answer = "no"
            THEN Result(cfg, dsk, t, "cancelled by user", accountName, 0)
            ELSE IF copy.err
            THEN Result(cfg, dsk, copy.t, "copy config", accountName, 0)
            ELSE IF save.err
            THEN Result(cfg2, save.disk, TreeRemoveAll(copy.t, switchPath),
                        "save config", accountName, SaveHit(sf))
            ELSE Result(cfg2, save.disk, copy.t, "", accountName, 0)

CursorPath == expandPath(CursorTemplate.AuthPath)

CursorSnapshot(name) ==
    resolveSwitchPattern(CursorTemplate.Pattern, CursorPath, name)

\* The cursor directory with any children, no profile added yet.
InitNested ==
    /\ EngineIdle
    /\ disk = DefaultRegistry
    /\ call = NoHelperCall
    /\ \E e \in [EntryNames -> DirContents \cup {NoEntry}] :
          LET dirs  == {SubSeq(CursorPath, 1, k) : k \in 1..Len(CursorPath)}
              files == {Append(CursorPath, n) : n \in {x \in EntryNames : e[x] # NoEntry}}
          IN fs = [p \in dirs \cup files |->
                      IF p \in dirs THEN TreeDir ELSE File(e[Last(p)])]

AddAccountNested(accountName) ==
    \E answer \in {"yes", "no"}, sf \in SaveFaults :
        LET r == TreeAddAccountResult(config, disk, fs, accountName, answer, sf)
        IN /\ answer = "no" => HasAppConfig(config, "cursor")
           /\ Apply(r)
           /\ last' = Call("add", "cursor", r)
           /\ walk' = <<>>

\* The application writes or deletes a child of its live folder.
ExternalEditNested(n, c) ==
    /\ edits < MaxEdits
    /\ edits' = edits + 1
    /\ fs' = IF c = NoEntry
             THEN [q \in DOMAIN fs \ {Append(CursorPath, n)} |-> fs[q]]
             ELSE [q \in DOMAIN fs \cup {Append(CursorPath, n)} |->
                      IF q = Append(CursorPath, n) THEN File(c) ELSE fs[q]]
    /\ last' = NoCall("edit", "cursor", "")
    /\ walk' = <<>>
    /\ UNCHANGED <<config, disk, faults, call>>

NextNested ==
    \/ \E accountName \in Names \ {""} : AddAccountNested(accountName)
    \/ \E n \in EntryNames, c \in DirContents \cup {NoEntry} :
           ExternalEditNested(n, c)

SpecNested == InitNested /\ [][NextNested]_vars

---------------------------------------------------------------------------
(* Properties of the engine.  A step of an operation is told from last',   *)
(* which every action sets to its own call.                                *)

\* The profile names a registry lists for an application.
ProfileNames(cfg, appName) ==
    IF HasAppConfig(cfg, appName)
    THEN {cfg.Apps[appName].Accounts[i] : i \in DOMAIN cfg.Apps[appName].Accounts}
    ELSE {}

\* Two nodes compared by the content comparator.
NodesEqual(x, y) == contentEqual(<<x, y>>, 1, 2)

\* The name after n in the sorted list, the first one after the last.
Successor(accounts, n) ==
    LET i == CHOOSE j \in 1..Len(accounts) : accounts[j] = n
    IN accounts[(i % Len(accounts)) + 1]

\* C1: after a successful switch to a profile p, asked for by name or chosen
\* by cycling, p is a registered non-empty name whose snapshot exists, the
\* live artifact equals p's snapshot under the comparator (for a file byte
\* for byte, for a folder in every child of the snapshot), and the registry
\* in memory names p as the current profile.
C1_SwitchInstallsTarget ==
    (last.op \in {"switch", "cycle"} /\ last.err = "") =>
        LET live == ArtifactPath(last.app)
            snap == SnapshotPath(last.app, last.target)
        IN /\ last.target # ""
           /\ last.target \in ProfileNames(config, last.app)
           /\ fileOrDirExists(fs, snap)
           /\ contentEqual(fs, live, snap)
           /\ fs[live].t = "file" => fs[live].c = fs[snap].c
           /\ fs[live].t = "dir" =>
                  \A n \in EntryNames :
                      fs[snap].e[n] # NoEntry => fs[live].e[n] = fs[snap].e[n]
           /\ GetAppConfig(config, last.app).Current = last.target

\* A switch by name has succeeded on a file artifact with a second profile
\* whose snapshot holds another document.
C1_Witness ==
    /\ last.op = "switch" /\ last.err = "" /\ last.target # ""
    /\ fs[ArtifactPath(last.app)].t = "file"
    /\ \E n \in ProfileNames(config, last.app) \ {last.target} :
           /\ fileOrDirExists(fs, SnapshotPath(last.app, n))
           /\ ~contentEqual(fs, SnapshotPath(last.app, n),
                            SnapshotPath(last.app, last.target))

\* C2: in a run without I/O failures (calls of AddAccount, SwitchAccount and
\* CycleAccounts, and rewrites of the live artifact by its application),
\* after every successful switch the content the live artifact held just
\* before the call equals, under the comparator, the snapshot of at least
\* one registered profile.
C2_PreviousLiveBackedUp ==
    [][(last'.op \in {"switch", "cycle"} /\ last'.err = "" /\ faults' = 0) =>
          \E n \in ProfileNames(config', last'.app) :
              /\ fileOrDirExists(fs', SnapshotPath(last'.app, n))
              /\ NodesEqual(fs[ArtifactPath(last'.app)],
                            fs'[SnapshotPath(last'.app, n)])]_vars

\* C3: without any I/O failure, in a run of consecutive CycleAccounts calls
\* that starts with all
\* snapshots present, no two of equal content and one profile active, each
\* call activates the successor of the profile active before it in sorted
\* order with wrap-around; a run of as many calls as there are profiles has
\* activated each once and ends on the profile it started from.
C3_CycleWalksAllProfiles ==
    (walk # <<>> /\ faults = 0) =>
        LET accounts == GetAppConfig(config, last.app).Accounts
        IN /\ \A k \in 2..Len(walk) : walk[k] = Successor(accounts, walk[k - 1])
           /\ Len(walk) = Len(accounts) + 1 =>
                  /\ walk[Len(walk)] = walk[1]
                  /\ {walk[k] : k \in 2..Len(walk)} = ProfileNames(config, last.app)

\* C4: when AddAccount has copied the snapshot and the save of the registry
\* fails, the call returns the error, the snapshot is gone and the registry
\* held in memory does not list the name.
C4_AddRollsBackOnSaveFailure ==
    (last.op = "add" /\ last.err = "save config") =>
        /\ ~fileOrDirExists(fs, SnapshotPath(last.app, last.target))
        /\ last.target \notin ProfileNames(config, last.app)

\* Every profile the persisted registry lists has its snapshot on disk.
PersistedProfilesHaveSnapshots ==
    \A appName \in DOMAIN disk.Apps :
        \A n \in ProfileNames(disk, appName) :
            fileOrDirExists(fs, SnapshotPath(appName, n))

\* C5: whatever saves fail, after every call each profile the persisted
\* registry lists has its snapshot on disk, and an AddAccount whose save
\* fails leaves in place a snapshot that existed before the call.
C5_RegistryAndSnapshotsConsistent ==
    [][/\ PersistedProfilesHaveSnapshots'
       /\ (/\ last'.op = "add" /\ last'.err = "save config"
           /\ fileOrDirExists(fs, SnapshotPath(last'.app, last'.target)))
          => fileOrDirExists(fs', SnapshotPath(last'.app, last'.target))]_vars

\* C6: when a switch returns an error, the live artifact is as it was before
\* the call or holds the complete content of a snapshot that existed before
\* the call.
C6_FailedSwitchKeepsLiveIntact ==
    [][(last'.op \in {"switch", "cycle"} /\ last'.err # "") =>
          LET live == ArtifactPath(last'.app)
          IN \/ fs'[live] = fs[live]
             \/ \E n \in Names :
                    /\ fileOrDirExists(fs, SnapshotPath(last'.app, n))
                    /\ fs'[live] = fs[SnapshotPath(last'.app, n)]]_vars

\* C7: after a successful AddAccount(app, x) on an application that had no
\* profile before the call, findCurrentAccount(app) returns x.
C7_AddThenFindCurrent ==
    [][(/\ last'.op = "add" /\ last'.err = ""
        /\ ProfileNames(config, last'.app) = {}) =>
          findCurrentAccount(config', fs', last'.app) = last'.target]_vars

\* The first profile of an application has just been added under a
\* non-empty name, and findCurrentAccount returns it.
C7_Witness ==
    /\ last.op = "add" /\ last.err = "" /\ last.target # ""
    /\ HasAppConfig(config, last.app)
    /\ GetAppConfig(config, last.app).Accounts = <<last.target>>
    /\ findCurrentAccount(config, fs, last.app) = last.target

\* C8: for a file artifact whose detected current profile is a, a successful
\* SwitchAccount(app, b) with b other than a leaves a's snapshot equal under
\* the comparator to what it was and every other profile's snapshot
\* unchanged byte for byte.
C8_SwitchLeavesSnapshotsAlone ==
    [][LET appName == last'.app
           a == findCurrentAccount(config, fs, appName)
       IN (/\ last'.op = "switch" /\ last'.err = ""
           /\ fs[ArtifactPath(appName)].t = "file"
           /\ a # "" /\ a # last'.target) =>
              /\ NodesEqual(fs[SnapshotPath(appName, a)],
                            fs'[SnapshotPath(appName, a)])
              /\ \A n \in ProfileNames(config, appName) \ {a} :
                     fs'[SnapshotPath(appName, n)] = fs[SnapshotPath(appName, n)]]_vars

\* C9: SwitchAccount(app, m) on a registered application with a non-empty
\* name m the registry does not list returns "account not found" and leaves
\* the live artifact, every snapshot, the registry in memory and the
\* persisted registry as they were.
C9_SwitchToUnknownProfileChangesNothing ==
    [][(/\ last'.op = "switch" /\ HasAppConfig(config, last'.app)
        /\ last'.target # ""
        /\ last'.target \notin ProfileNames(config, last'.app)) =>
          /\ last'.err = "account not found"
          /\ fs' = fs /\ config' = config /\ disk' = disk]_vars

\* A switch to an unlisted name was refused on an application that has a
\* profile.
C9_Witness ==
    /\ last.op = "switch" /\ last.err = "account not found" /\ last.target # ""
    /\ ProfileNames(config, last.app) # {}
    /\ last.target \notin ProfileNames(config, last.app)

\* C10: when the copy of the target snapshot onto the live artifact fails,
\* the switch returns "switch config" and the registry, the current profile
\* with it, is unchanged in memory and on disk.
C10_FailedSwapLeavesRegistry ==
    [][(last'.op \in {"switch", "cycle"} /\ last'.err = "switch config") =>
          (config' = config /\ disk' = disk)]_vars

\* A switch to a profile other than the recorded current one failed in the
\* swap.
C10_Witness ==
    /\ last.op = "switch" /\ last.err = "switch config"
    /\ GetAppConfig(config, last.app).Current # last.target

\* C11: when the copy of the live artifact to the snapshot fails, AddAccount
\* returns "copy config" and the registry is as before the call, in memory
\* and on disk: the entry of the application, its Accounts and its Current.
C11_FailedAddCopyLeavesRegistry ==
    [][(last'.op = "add" /\ last'.err = "copy config") =>
          (config' = config /\ disk' = disk)]_vars

\* An AddAccount failed in its copy, on an application with or without an
\* entry.
C11_Witness ==
    /\ last.op = "add" /\ last.err = "copy config"
    /\ last.target \notin ProfileNames(config, last.app)

\* The number of times a name stands in a list.
Occurrences(accounts, n) == Cardinality({i \in DOMAIN accounts : accounts[i] = n})

\* C12: AddAccount(app, x) for a name x the registry lists either is
\* declined, and then returns "cancelled by user" and leaves the files and
\* the registry as they were, or is confirmed; a confirmed call that
\* succeeds leaves the live artifact as it was, x's snapshot holding what the
\* live artifact holds (the bytes of a file, every child of a folder) and x
\* listed exactly once.
C12_AddExistingProfile ==
    [][(last'.op = "add" /\ last'.target \in ProfileNames(config, last'.app)) =>
          LET live == ArtifactPath(last'.app)
              snap == SnapshotPath(last'.app, last'.target)
          IN /\ last'.err \in {"cancelled by user", "copy config", "save config", ""}
             /\ last'.err = "cancelled by user" =>
                    (fs' = fs /\ config' = config /\ disk' = disk)
             /\ last'.err = "" =>
                    /\ fs'[live] = fs[live]
                    /\ contentEqual(fs', live, snap)
                    /\ fs[live].t = "file" => fs'[snap] = fs[live]
                    /\ fs[live].t = "dir" =>
                           \A n \in EntryNames :
                               fs[live].e[n] # NoEntry =>
                                   fs'[snap].e[n] = fs[live].e[n]
                    /\ Occurrences(GetAppConfig(config', last'.app).Accounts,
                                   last'.target) = 1]_vars

\* An AddAccount for a listed name was declined.
C12_Witness ==
    /\ last.op = "add" /\ last.err = "cancelled by user"
    /\ last.target \in ProfileNames(config, last.app)
    /\ fileOrDirExists(fs, SnapshotPath(last.app, last.target))

\* C13: a switch to a listed profile whose snapshot is not on disk returns
\* "switch file not found" and writes nothing: the live artifact, every
\* snapshot and the registry, in memory and on disk, are as before.
C13_SwitchWithoutSnapshotChangesNothing ==
    [][(/\ last'.op \in {"switch", "cycle"} /\ last'.target # ""
        /\ last'.target \in ProfileNames(config, last'.app)
        /\ ~fileOrDirExists(fs, SnapshotPath(last'.app, last'.target))) =>
          /\ last'.err = "switch file not found"
          /\ fs' = fs /\ config' = config /\ disk' = disk]_vars

\* A switch was refused for want of the snapshot while another profile's
\* snapshot is on disk.
C13_Witness ==
    /\ last.op = "switch" /\ last.err = "switch file not found"
    /\ \E n \in ProfileNames(config, last.app) :
           fileOrDirExists(fs, SnapshotPath(last.app, n))

\* A list of names in strictly ascending order.
StrictlySorted(accounts) ==
    \A i \in DOMAIN accounts : \A j \in DOMAIN accounts :
        i < j => Rank(accounts[i]) < Rank(accounts[j])

\* C14: in every state the Accounts of every application, in memory and on
\* disk, are in ascending order without a duplicate.
C14_AccountsSortedNoDuplicates ==
    /\ \A appName \in DOMAIN config.Apps :
           StrictlySorted(config.Apps[appName].Accounts)
    /\ \A appName \in DOMAIN disk.Apps :
           StrictlySorted(disk.Apps[appName].Accounts)

\* A name was added that sorts before a name already listed.
C14_Witness ==
    /\ last.op = "add" /\ last.err = ""
    /\ LET accounts == GetAppConfig(config, last.app).Accounts
       IN Len(accounts) >= 2 /\ accounts[1] = last.target

\* C15: every call of SwitchAccount and CycleAccounts returns a success or
\* a failure to its caller, also with a profile named "" in the registry: no
\* call is ended by the runtime for calling itself without end.
C15_OperationsTerminate ==
    last.op \in {"switch", "cycle"} => last.err # "stack overflow"

\* C16: CycleAccounts on an entry without accounts returns "no accounts";
\* SwitchAccount and CycleAccounts on an application without an entry, and
\* AddAccount on one without an entry and without a template, return "no
\* configuration found"; AddAccount on one without an entry whose template's
\* artifact is missing returns "auth path not found".  None of these calls
\* writes a file or changes the registry, in memory or on disk.
C16_RefusedCallsChangeNothing ==
    [][LET appName == last'.app
           known   == HasAppConfig(config, appName)
           same    == fs' = fs /\ config' = config /\ disk' = disk
       IN /\ (last'.op = "cycle" /\ known
              /\ Len(GetAppConfig(config, appName).Accounts) = 0) =>
                 (last'.err = "no accounts" /\ same)
          /\ (last'.op \in {"switch", "cycle"} /\ ~known) =>
                 (last'.err = "no configuration found" /\ same)
          /\ (last'.op = "add" /\ ~known /\ appName \notin TemplateApps) =>
                 (last'.err = "no configuration found" /\ same)
          /\ (last'.op = "add" /\ ~known /\ appName \in TemplateApps
              /\ ~fileOrDirExists(fs, ArtifactPath(appName))) =>
                 (last'.err = "auth path not found" /\ same)]_vars

\* CycleAccounts was refused on an entry without accounts.
C16_Witness ==
    /\ last.op = "cycle" /\ last.err = "no accounts"
    /\ HasAppConfig(config, last.app)
    /\ GetAppConfig(config, last.app).Accounts = <<>>

\* C17: expandPath applied to its own result returns that result, for every
\* input path, also one that cleans to the home marker or begins with it.
C17_ExpandIdempotent ==
    call.fn = "expandPath twice" => call.again = call.out

\* C18: contentEqual gives the same answer for a pair of paths and for the
\* swapped pair, whatever the two paths are: missing, a directory, a file
\* with a JSON object or a file with other bytes.
C18_ContentEqualSymmetric ==
    call.fn = "contentEqual" => call.out = call.back

C18_Witness ==
    /\ call.fn = "contentEqual"
    /\ call.a # call.b
    /\ fs[call.a].t = "file" /\ TextOf(fs[call.a].c).kind = "object"
    /\ fs[call.b].t = "file" /\ TextOf(fs[call.b].c).kind = "raw"
    /\ call.out = call.back

\* The document a text is, when it is a JSON object: its keys with their
\* values exactly as written.
RECURSIVE DocumentOf(_)
DocumentOf(m) ==
    [k \in {m[i].k : i \in 1..Len(m)} |->
        LET v == m[CHOOSE i \in 1..Len(m) : m[i].k = k].v
        IN IF v.t = "obj"
           THEN [t |-> "obj", big |-> FALSE, n |-> 0, m |-> DocumentOf(v.m)]
           ELSE [t |-> v.t, big |-> v.big, n |-> v.n, m |-> NoMap]]

ParsesAsDocument(text) == text.kind = "object"

\* Equality of two paths as the comparator is defined.
DefinedEqual(files, a, b) ==
    IF files[a].t = "dir" /\ files[b].t = "dir" THEN TRUE
    ELSE IF files[a].t = "file" /\ files[b].t = "file"
         THEN LET x == TextOf(files[a].c)
                  y == TextOf(files[b].c)
              IN IF ParsesAsDocument(x) /\ ParsesAsDocument(y)
                 THEN DocumentOf(x.m) = DocumentOf(y.m)
                 ELSE x = y
         ELSE FALSE

\* C19: contentEqual answers as it is defined: two files that are both
\* key-value documents are equal iff they have the same keys with the same
\* values, two files of which one is no document iff their bytes are the
\* same, two directories always, anything else never.
C19_ContentEqualAsDefined ==
    call.fn = "contentEqual" => call.out = DefinedEqual(fs, call.a, call.b)

\* C20: NewSwitcher on a missing persisted file makes the default registry
\* (default application "codex", no applications) and saves it at once, so
\* that the file exists afterwards; it fails only when that save fails.  On
\* a file that cannot be read or cannot be parsed it fails and leaves the
\* file as it was.
C20_LoadMissingOrBroken ==
    [][last'.op = "new" =>
          /\ (disk = Absent /\ last'.err = "") =>
                 /\ config' = DefaultRegistry
                 /\ disk' = DefaultRegistry
          /\ (disk = Absent /\ faults' = faults) => last'.err = ""
          /\ disk \in {Unreadable, Garbled} =>
                 /\ last'.err \in {"read config", "parse config"}
                 /\ disk' = disk]_vars

\* A registry without applications is on disk after a load only when the
\* load found no file and saved the default registry.
C20_Witness ==
    /\ last.op = "new"
    /\ last.err = ""
    /\ faults = 0
    /\ disk = DefaultRegistry
    /\ config = DefaultRegistry
    /\ DefaultRegistry \notin PersistedStates

\* The places in the accounts of an application whose snapshot exists and
\* is equal to the live artifact under the comparator.
MatchingPlaces(cfg, files, appName) ==
    LET appConfig == GetAppConfig(cfg, appName)
        live      == ExpandedPath(appConfig.AuthPath)
        snap(i)   == ResolvedPattern(appConfig.SwitchPattern, live,
                                     appConfig.Accounts[i])
    IN {i \in 1..Len(appConfig.Accounts) :
           /\ fileOrDirExists(files, snap(i))
           /\ contentEqual(files, live, snap(i))}

\* C21: findCurrentAccount returns "" when the live artifact does not
\* exist; otherwise the first name, in the order of Accounts, whose snapshot
\* exists and is equal to the live artifact under the comparator, passing
\* over names whose snapshot is missing, and "" when there is none.  It
\* changes no state and a second call gives the same answer.
C21_FindCurrentFirstMatch ==
    [][call'.fn \in {"findCurrentAccount", "findCurrentAccount again"} =>
          LET places == IF HasAppConfig(config, call.app)
                        THEN MatchingPlaces(config, fs, call.app) ELSE {}
              live   == ArtifactPath(call.app)
              found  == IF call'.fn = "findCurrentAccount"
                        THEN call'.out ELSE call'.again
          IN /\ UNCHANGED <<config, disk, fs>>
             /\ (~fileOrDirExists(fs, live) \/ places = {}) => found = ""
             /\ (fileOrDirExists(fs, live) /\ places # {}) =>
                    found = GetAppConfig(config, call.app).Accounts[
                                CHOOSE i \in places : \A j \in places : i <= j]
             /\ call'.fn = "findCurrentAccount again" => call'.again = call.out]_vars

\* "a" is found: the snapshot of "", listed before it, is missing, and the
\* snapshot of "b", listed after it, is equal to the live artifact as well.
C21_Witness ==
    /\ call.fn = "findCurrentAccount again"
    /\ call.again = "a"
    /\ HasAppConfig(config, call.app)
    /\ GetAppConfig(config, call.app).Accounts = <<"", "a", "b">>
    /\ ~fileOrDirExists(fs, SnapshotPath(call.app, ""))
    /\ Cardinality(MatchingPlaces(config, fs, call.app)) = 2

\* The profile CycleAccounts is to switch to: the first one when none is
\* detected, else the one after the detected profile, the first after the
\* last.
CycleTarget(cfg, files, appName) ==
    LET accounts == GetAppConfig(cfg, appName).Accounts
        current  == findCurrentAccount(cfg, files, appName)
    IN IF current = "" THEN accounts[1] ELSE Successor(accounts, current)

\* What of a result a caller and the next call can see.
Outcome(r) == <<r.config, r.disk, r.fs, r.err>>

\* C22: CycleAccounts on an entry with accounts does what SwitchAccount does
\* for the first profile when findCurrentAccount detects none and for the
\* profile after the detected one otherwise, the first after the last; and
\* in every state SwitchAccount with the name "" does and returns what
\* CycleAccounts does.
C22_CycleSwitchesToSuccessor ==
    [][/\ \A appName \in InstalledApps : \A p \in FaultPlans(appName) :
              Outcome(SwitchAccountResult(config, disk, fs, appName, "",
                                          p[1], p[2], p[3]))
              = Outcome(CycleAccountsResult(config, disk, fs, appName,
                                            p[1], p[2], p[3]))
       /\ (/\ last'.op = "cycle"
           /\ HasAppConfig(config, last'.app)
           /\ Len(GetAppConfig(config, last'.app).Accounts) > 0) =>
              \E p \in FaultPlans(last'.app) :
                  <<config', disk', fs', last'.err>>
                  = Outcome(SwitchNamed(config, disk, fs, last'.app,
                                        CycleTarget(config, fs, last'.app),
                                        p[1], p[2], p[3]))]_vars

\* C23: when SwitchAccount has copied the target's snapshot onto the live
\* artifact and the save of the registry then fails, the call returns nil,
\* the live artifact holds the target's content, the registry in memory
\* names the target as current, and the persisted registry is what it was
\* before the call.
C23_SwitchSurvivesFailedSave ==
    [][(last'.op \in {"switch", "cycle"} /\ last'.err = "" /\ disk' # config') =>
          LET live == ArtifactPath(last'.app)
              snap == SnapshotPath(last'.app, last'.target)
          IN /\ contentEqual(fs', live, snap)
             /\ fs'[live].t = "file" => fs'[live].c = fs'[snap].c
             /\ GetAppConfig(config', last'.app).Current = last'.target
             /\ disk' = disk]_vars

\* C24: a successful AddAccount(app, x) leaves x as the current profile of
\* the entry when the entry had none before the call (or did not exist), and
\* leaves the current profile as it was when the entry had one.
C24_FirstProfileBootstrap ==
    [][(last'.op = "add" /\ last'.err = "") =>
          LET was == IF HasAppConfig(config, last'.app)
                     THEN GetAppConfig(config, last'.app).Current ELSE ""
              is  == GetAppConfig(config', last'.app).Current
          IN /\ was = "" => is = last'.target
             /\ was # "" => is = was]_vars

\* A second profile was added and the first one is still the current one.
C24_Witness ==
    /\ last.op = "add" /\ last.err = "" /\ last.target # ""
    /\ GetAppConfig(config, last.app).Current \notin {"", last.target}
    /\ last.target \in ProfileNames(config, last.app)

\* The children of a directory after a directory was copied onto it: those
\* of the source with the source's content, and its own other children.
Overlaid(srcE, dstE) ==
    [n \in EntryNames |-> IF srcE[n] # NoEntry THEN srcE[n] ELSE dstE[n]]

\* C25: a copy of a directory onto an existing directory leaves in the
\* destination every child of the source with the source's content and
\* every other child the destination had, unchanged: so it is for the live
\* directory after a successful switch and for a snapshot after a successful
\* AddAccount over it.  The live directory can so hold children that the
\* target's snapshot does not have.
C25_FolderCopyKeepsOtherChildren ==
    [][LET live == ArtifactPath(last'.app)
           snap == SnapshotPath(last'.app, last'.target)
       IN /\ (/\ last'.op \in {"switch", "cycle"} /\ last'.err = ""
              /\ fs[live].t = "dir" /\ fs[snap].t = "dir") =>
                 /\ fs'[live].t = "dir"
                 /\ fs'[live].e = Overlaid(fs[snap].e, fs[live].e)
          /\ (/\ last'.op = "add" /\ last'.err = ""
              /\ fs[live].t = "dir" /\ fs[snap].t = "dir") =>
                 /\ fs'[snap].t = "dir"
                 /\ fs'[snap].e = Overlaid(fs[live].e, fs[snap].e)]_vars

\* After a successful switch the live directory holds a child that the
\* target's snapshot does not have.
C25_Witness ==
    /\ last.op \in {"switch", "cycle"} /\ last.err = ""
    /\ fs[ArtifactPath(last.app)].t = "dir"
    /\ \E n \in EntryNames :
          /\ fs[ArtifactPath(last.app)].e[n] # NoEntry
          /\ fs[SnapshotPath(last.app, last.target)].e[n] = NoEntry

\* C26: for a directory artifact with two or more profiles, a successful
\* switch writes what the live directory held only into the snapshot of the
\* profile made active last.  Stated for a switch that follows directly on
\* the successful AddAccount or switch that made a profile active: it
\* leaves the snapshot of every other profile as it was, in a behaviour
\* without any I/O failure.
C26_WriteBackOnlyToActiveProfile ==
    [][(/\ faults' = 0
        /\ last.op \in {"add", "switch", "cycle"} /\ last.err = ""
        /\ last'.op \in {"switch", "cycle"} /\ last'.err = ""
        /\ last'.app = last.app
        /\ fs[ArtifactPath(last.app)].t = "dir"
        /\ Cardinality(ProfileNames(config, last.app)) >= 2) =>
          \A n \in ProfileNames(config, last.app) \ {last.target} :
              fs'[SnapshotPath(last.app, n)] = fs[SnapshotPath(last.app, n)]]_vars

\* C27: in every state reached from the empty registry by AddAccount,
\* SwitchAccount and CycleAccounts calls, whether they succeed or fail and
\* whether their saves succeed or fail, the current profile of every entry,
\* in memory and in a persisted registry that parses, is "" or one of the
\* entry's Accounts.
C27_CurrentIsListedOrEmpty ==
    /\ \A appName \in DOMAIN config.Apps :
           \/ config.Apps[appName].Current = ""
           \/ config.Apps[appName].Current \in ProfileNames(config, appName)
    /\ \A appName \in DOMAIN disk.Apps :
           \/ disk.Apps[appName].Current = ""
           \/ disk.Apps[appName].Current \in ProfileNames(disk, appName)

\* An AddAccount whose save failed has left its profile current in memory.
C27_Witness ==
    /\ last.op = "add" /\ last.err = "save config" /\ last.target # ""
    /\ GetAppConfig(config, last.app).Current = last.target
    /\ ~HasAppConfig(disk, last.app)

\* What a tree holds under a path, by the paths relative to it.
Subtree(t, root) ==
    LET under == {p \in DOMAIN t : Len(p) >= Len(root)
                                   /\ SubSeq(p, 1, Len(root)) = root}
    IN [r \in {SubSeq(p, Len(root) + 1, Len(p)) : p \in under} |-> t[root \o r]]

\* C29: AddAccount of a profile not yet listed, not declined and without an
\* input/output failure, returns without error with the snapshot a copy of
\* the artifact as the call found it, also when the snapshot lies inside the
\* artifact directory (cursor: ~/.cursor and ~/.cursor/profiles/{name}.switch)
\* and for a second profile: the copy does not go down into the snapshot it
\* is making.
C29_NestedSnapshotIsCopy ==
    [][(/\ last'.op = "add" /\ last'.app = "cursor" /\ faults' = faults
        /\ last'.target \notin ProfileNames(config, "cursor")
        /\ last'.err # "cancelled by user") =>
          /\ last'.err = ""
          /\ Subtree(fs', CursorSnapshot(last'.target))
             = Subtree(fs, CursorPath)]_vars

\* C28: AddAccount(app, x), whether it succeeds or fails, leaves the live
\* artifact and the snapshot of every profile other than x as they were,
\* when the pattern gives different paths for different names and none of
\* them is the path of the artifact.
C28_AddTouchesOnlyItsSnapshot ==
    [][(/\ last'.op = "add" /\ last'.app = "cursor"
        /\ \A n \in Names : CursorSnapshot(n) # CursorPath
        /\ \A n \in Names : \A m \in Names \ {n} :
               CursorSnapshot(n) # CursorSnapshot(m)) =>
          /\ Subtree(fs', CursorPath) = Subtree(fs, CursorPath)
          /\ \A n \in Names \ {last'.target} :
                 Subtree(fs', CursorSnapshot(n)) = Subtree(fs, CursorSnapshot(n))]_vars

\* How a call ended before it wrote anything: a failed check.
FailedChecks ==
    {"no configuration found", "auth path not found", "cancelled by user",
     "account not found", "switch file not found", "no accounts"}

\* How a call ended when its copy failed.
FailedCopies == {"copy config", "switch config"}

\* C30: AddAccount and SwitchAccount check, then copy, then change the
\* registry in memory, then save it. A call that fails a check has written
\* no file and changed no registry; a call whose copy onto the snapshot
\* (add) or onto the live artifact (switch) failed has changed neither the
\* registry in memory nor the saved one; and whatever a call saves is the
\* registry in memory as the call leaves it, or the cut-off write of it.
C30_CheckCopyRegisterSave ==
    [][last'.op \in {"add", "switch", "cycle"} =>
          /\ last'.err \in FailedChecks =>
                 fs' = fs /\ config' = config /\ disk' = disk
          /\ last'.err \in FailedCopies => config' = config /\ disk' = disk
          /\ config' # config => last'.err \in {"", "save config"}
          /\ disk' # disk => disk' \in {config', Garbled}]_vars

\* A switch got past its checks and wrote files, its copy onto the live
\* artifact failed, and the registry still names another profile, in memory
\* as on the disk.
C30_Witness ==
    /\ last.op = "switch" /\ last.err = "switch config"
    /\ fileOrDirExists(fs, SnapshotPath(last.app, last.target))
    /\ fs[ArtifactPath(last.app)] # fs[SnapshotPath(last.app, last.target)]
    /\ GetAppConfig(config, last.app).Current # last.target
    /\ disk = config

===========================================================================
